---- MODULE Spec2Model ----
(***************************************************************************)
(* Model of app.py, the COCOMO estimation tool: the engine                 *)
(* calculate_cocomo and the Flask handler index.                           *)
(*                                                                         *)
(* Python floats are modelled as decimal fixed-point numbers: an integer n *)
(* stands for the float n / Scale.  The inputs are chosen so that no value *)
(* leaves the range the fixed-point arithmetic represents.  A complex      *)
(* number (Python's result of a negative float raised to a fractional      *)
(* power) is modelled only by whether it is zero.                          *)
(***************************************************************************)
EXTENDS Integers, Sequences, FiniteSets, TLC

VARIABLES pc, method, form, args, results, error, raised, steps, raw

vars == <<pc, method, form, args, results, error, raised, steps, raw>>

-----------------------------------------------------------------------------
(* Fixed-point arithmetic standing for Python's float operations.          *)

\* One float unit: the float x is the integer x * Scale.
Scale == 10^6

\* Square root of Scale, used to multiply without leaving 32 bits.
Half == 10^3

\* ln 2 in units of 1/Scale.
LN2 == 693147 * (Scale \div 10^6)

Abs(x) == IF x < 0 THEN -x ELSE x

Sign(x) == IF x < 0 THEN -1 ELSE IF x = 0 THEN 0 ELSE 1

\* |a| * |b| / Scale, rounded to the nearest unit.
MulAbs(a, b) ==
    LET ah == a \div Half
        al == a % Half
        bh == b \div Half
        bl == b % Half
    IN  ah * bh + ((ah * bl + al * bh + (al * bl) \div Half) + Half \div 2) \div Half

\* Float multiplication a * b.
FMul(a, b) == Sign(a) * Sign(b) * MulAbs(Abs(a), Abs(b))

\* Digits of r / b after the decimal point, n of them, as an integer.
RECURSIVE FracDigits(_, _, _, _)
FracDigits(r, b, n, acc) ==
    IF n = 0 THEN acc + (IF 2 * r >= b THEN 1 ELSE 0)
    ELSE FracDigits((r * 10) % b, b, n - 1, acc * 10 + (r * 10) \div b)

\* |a| / |b| in units of 1/Scale, rounded to the nearest unit (b # 0).
DivAbs(a, b) == (a \div b) * Scale + FracDigits(a % b, b, 6, 0)

\* Float division a / b for b # 0.
FDiv(a, b) == Sign(a) * Sign(b) * DivAbs(Abs(a), Abs(b))

\* 2^k for k >= 0.
RECURSIVE Pow2(_)
Pow2(k) == IF k = 0 THEN 1 ELSE 2 * Pow2(k - 1)

\* The k with 2^k <= x / Scale < 2^(k+1), for x > 0.
RECURSIVE Log2Floor(_, _)
Log2Floor(x, k) ==
    IF x >= 2 * Scale THEN Log2Floor(x \div 2, k + 1)
    ELSE IF x < Scale THEN Log2Floor(x * 2, k - 1)
    ELSE k

\* z + z^3/3 + z^5/5 + ... up to the power n (atanh z), zp = z^i.
RECURSIVE AtanhSeries(_, _, _, _)
AtanhSeries(z, zp, i, n) ==
    IF i > n THEN 0
    ELSE zp \div i + AtanhSeries(z, MulAbs(MulAbs(zp, z), z), i + 2, n)

\* atanh z.
Atanh(z) == AtanhSeries(z, z, 1, 13)

\* x / 2^k.
Mantissa(x, k) == IF k >= 0 THEN x \div Pow2(k) ELSE x * Pow2(-k)

\* ln(m * 2^k) for 1 <= m < 2: k ln 2 + 2 atanh((m - 1) / (m + 1)).
LnParts(m, k) == k * LN2 + 2 * Atanh(DivAbs(m - Scale, m + Scale))

\* ln x for x > 0, given k with 2^k <= x < 2^(k+1).
LnScaled(x, k) == LnParts(Mantissa(x, k), k)

\* Natural logarithm of x > 0.
Ln(x) == LnScaled(x, Log2Floor(x, 0))

\* 1 + r/i * (1 + r/(i+1) * (...)): the Taylor series of e^r from term i.
RECURSIVE ExpSeries(_, _, _)
ExpSeries(r, i, n) ==
    IF i > n THEN Scale
    ELSE Scale + MulAbs(r, ExpSeries(r, i + 1, n)) \div i

\* e * 2^k, rounded to the nearest unit.
TimesPow2(e, k) ==
    IF k >= 0 THEN e * Pow2(k) ELSE (e + Pow2(-k) \div 2) \div Pow2(-k)

\* e^y, given k = floor(y / ln 2).
ExpScaled(y, k) == TimesPow2(ExpSeries(y - k * LN2, 1, 12), k)

\* e^y.
Exp(y) == ExpScaled(y, y \div LN2)

\* x ** e for a float x > 0 and an exponent e > 0.
PowPos(x, e) == Exp(FMul(e, Ln(x)))

\* round(x, n) of a float: to the nearest multiple of unit, ties to even.
RoundTo(x, unit) ==
    LET q == x \div unit
        r == x % unit
    IN  IF 2 * r > unit THEN (q + 1) * unit
        ELSE IF 2 * r < unit THEN q * unit
        ELSE IF q % 2 = 0 THEN q * unit ELSE (q + 1) * unit

\* round(x, 2).
Round2(x) == RoundTo(x, Scale \div 100)

\* round(x, 3).
Round3(x) == RoundTo(x, Scale \div 1000)

\* round(x, 0).
Round0(x) == RoundTo(x, Scale)

-----------------------------------------------------------------------------
(* Python values.                                                          *)

\* A Python number: a float (cx = FALSE, v its fixed-point value) or a
\* complex number (cx = TRUE, v = 0 for 0j and 1 for any other).
Real(v) == [cx |-> FALSE, v |-> v]

Complex(nonzero) == [cx |-> TRUE, v |-> IF nonzero THEN 1 ELSE 0]

IsZero(x) == x.v = 0

\* x ** e for a fractional exponent e > 0: a negative float gives a complex.
PyPow(x, e) ==
    IF x.cx THEN x
    ELSE IF x.v > 0 THEN Real(PowPos(x.v, e))
    ELSE IF x.v = 0 THEN Real(0)
    ELSE Complex(TRUE)

\* x * y.
PyMul(x, y) ==
    IF x.cx \/ y.cx THEN Complex(~IsZero(x) /\ ~IsZero(y))
    ELSE Real(FMul(x.v, y.v))

\* x / y for y # 0.
PyDiv(x, y) ==
    IF x.cx \/ y.cx THEN Complex(~IsZero(x))
    ELSE Real(FDiv(x.v, y.v))

\* An argument or form value: None (a missing form field), a string that is
\* no numeral, or the numeral (or float) of value val / Scale.
Missing == [kind |-> "missing", val |-> 0]

Text == [kind |-> "text", val |-> 0]

Num(v) == [kind |-> "num", val |-> v]

\* float(x): TypeError on None, ValueError on a string that is no numeral.
FloatOf(x) ==
    IF x.kind = "missing" THEN [exc |-> "TypeError", val |-> 0]
    ELSE IF x.kind = "text" THEN [exc |-> "ValueError", val |-> 0]
    ELSE [exc |-> "none", val |-> x.val]

\* Python's None for results and error; a value x that is not None is <<x>>.
None == << >>

Some(x) == <<x>>

\* request.form.get('mode') when the form has no mode field.
NoMode == "None"

-----------------------------------------------------------------------------
(* The model catalog.                                                      *)

\* The float h / 100.
Dec(h) == h * (Scale \div 100)

\* [a, b, c, d] for E = a * (KLOC)^b and D = c * (E)^d.
COCOMO_PARAMS ==
    [organic      |-> <<Dec(240), Dec(105), Dec(250), Dec(38)>>,
     semidetached |-> <<Dec(300), Dec(112), Dec(250), Dec(35)>>,
     embedded     |-> <<Dec(360), Dec(120), Dec(250), Dec(32)>>]

\* The effort multipliers of each cost driver, by rating level.
COST_DRIVERS_DATA ==
    [RELY |-> [levels |-> [VL |-> Dec(75), L |-> Dec(88), N |-> Dec(100),
                           H |-> Dec(115), VH |-> Dec(140)],
               default |-> Dec(100)],
     DATA |-> [levels |-> [L |-> Dec(94), N |-> Dec(100), H |-> Dec(108),
                           VH |-> Dec(116)],
               default |-> Dec(100)],
     CPLX |-> [levels |-> [VL |-> Dec(70), L |-> Dec(85), N |-> Dec(100),
                           H |-> Dec(115), VH |-> Dec(130), EH |-> Dec(165)],
               default |-> Dec(100)],
     TOOL |-> [levels |-> [VL |-> Dec(124), L |-> Dec(110), N |-> Dec(100),
                           H |-> Dec(91), VH |-> Dec(82)],
               default |-> Dec(100)],
     VIRT |-> [levels |-> [L |-> Dec(87), N |-> Dec(100), H |-> Dec(115),
                           VH |-> Dec(130)],
               default |-> Dec(100)]]

\* The driver keys in the order the dictionary holds them.
DriverKeys == <<"RELY", "DATA", "CPLX", "TOOL", "VIRT">>

KeySet == {DriverKeys[i] : i \in 1..Len(DriverKeys)}

\* The multipliers the catalog defines for a driver.
LevelValues(key) ==
    LET lv == COST_DRIVERS_DATA[key].levels IN {lv[l] : l \in DOMAIN lv}

\* mode.capitalize() of a catalog mode.
Capitalize(mode) ==
    CASE mode = "organic" -> "Organic"
      [] mode = "semidetached" -> "Semidetached"
      [] mode = "embedded" -> "Embedded"
      [] OTHER -> mode

-----------------------------------------------------------------------------
(* The estimation engine.                                                  *)

InvalidModeMsg == "Invalid project mode selected."

\* The values that were not computed when a call ends early.
NoRaw == [eaf |-> Real(0), effort |-> Real(0), duration |-> Real(0),
          avg |-> Real(0), cost |-> Real(0)]

\* drivers.values(): the values of the keys the dictionary holds, in order.
RECURSIVE DriverValues(_, _)
DriverValues(drivers, i) ==
    IF i > Len(DriverKeys) THEN << >>
    ELSE IF DriverKeys[i] \in DOMAIN drivers
         THEN <<drivers[DriverKeys[i]]>> \o DriverValues(drivers, i + 1)
         ELSE DriverValues(drivers, i + 1)

\* EafStep with += written for *=.
EafStepAdd(eaf, value) == eaf + value

\* eaf *= float(value), for a value float() accepts.
EafStep(eaf, value) == FMul(eaf, value)

\* The loop over drivers.values(), from eaf: the exception float() raises on
\* the first value it rejects, or the product.
RECURSIVE EafLoop(_, _)
EafLoop(vals, eaf) ==
    IF vals = << >> THEN [exc |-> "none", val |-> eaf]
    ELSE LET f == FloatOf(Head(vals))
         IN  IF f.exc # "none" THEN [exc |-> f.exc, val |-> eaf]
             ELSE EafLoop(Tail(vals), EafStep(eaf, f.val))

\* The call ends with exception exc after the steps st.
Raise(exc, st, rw) ==
    [results |-> None, error |-> None, exc |-> exc, steps |-> st, raw |-> rw]

\* The call returns (res, err) after the steps st.
Return(res, err, st, rw) ==
    [results |-> res, error |-> err, exc |-> "none", steps |-> st, raw |-> rw]

\* TrueDiv giving 0 on a zero divisor instead of raising.
TrueDivSafe(x, y) ==
    IF IsZero(y) THEN [exc |-> "none", val |-> Real(0)]
    ELSE [exc |-> "none", val |-> PyDiv(x, y)]

\* TrueDiv with its operands exchanged.
TrueDivSwapped(x, y) ==
    IF IsZero(x) THEN [exc |-> "ZeroDivisionError", val |-> Real(0)]
    ELSE [exc |-> "none", val |-> PyDiv(y, x)]

\* effort_pm / duration_months: ZeroDivisionError on a zero divisor.
TrueDiv(x, y) ==
    IF IsZero(y) THEN [exc |-> "ZeroDivisionError", val |-> Real(0)]
    ELSE [exc |-> "none", val |-> PyDiv(x, y)]

\* ResultRecord with eaf returned as computed.
ResultRecordEafRaw(effort, duration, avg, cost, eaf, kloc, mode) ==
    [effort_pm |-> Round2(effort), duration_months |-> Round2(duration),
     avg_people |-> Round2(avg), total_cost |-> Round0(cost),
     eaf |-> eaf, kloc |-> kloc, mode |-> Capitalize(mode)]

\* The dictionary calculate_cocomo returns: every float rounded.
ResultRecord(effort, duration, avg, cost, eaf, kloc, mode) ==
    [effort_pm |-> Round2(effort), duration_months |-> Round2(duration),
     avg_people |-> Round2(avg), total_cost |-> Round0(cost),
     eaf |-> Round3(eaf), kloc |-> kloc, mode |-> Capitalize(mode)]

\* a * (float(kloc) ** b_exp) * eaf.
Effort(a, kloc, b_exp, eaf) ==
    PyMul(PyMul(Real(a), PyPow(Real(kloc), b_exp)), Real(eaf))

\* c * (effort_pm ** d_exp).
Duration(c, effort_pm, d_exp) == PyMul(Real(c), PyPow(effort_pm, d_exp))

\* effort_pm * float(salary).
TotalCost(effort_pm, salary) == PyMul(effort_pm, Real(salary))

\* The unrounded values of a call.
Raw(eaf, effort, duration, avg, cost) ==
    [eaf |-> Real(eaf), effort |-> effort, duration |-> duration, avg |-> avg,
     cost |-> cost]

StepsToStaffing == <<"eaf", "mode", "effort", "duration", "staffing">>

\* The return statement: round() raises TypeError on a complex number.
Rounded(eaf, kloc, mode, effort_pm, duration_months, avg_people, total_cost) ==
    IF effort_pm.cx \/ duration_months.cx \/ avg_people.cx \/ total_cost.cx
    THEN Raise("TypeError", StepsToStaffing \o <<"cost", "round">>,
               Raw(eaf, effort_pm, duration_months, avg_people, total_cost))
    ELSE Return(Some(ResultRecord(effort_pm.v, duration_months.v, avg_people.v,
                                  total_cost.v, eaf, kloc, mode)),
                None, StepsToStaffing \o <<"cost", "round">>,
                Raw(eaf, effort_pm, duration_months, avg_people, total_cost))

\* From the total cost on: float(salary) may raise.
Costed(eaf, kloc, mode, effort_pm, duration_months, avg_people, s) ==
    IF s.exc # "none"
    THEN Raise(s.exc, StepsToStaffing \o <<"cost">>,
               Raw(eaf, effort_pm, duration_months, avg_people, Real(0)))
    ELSE Rounded(eaf, kloc, mode, effort_pm, duration_months, avg_people,
                 TotalCost(effort_pm, s.val))

\* From the staffing on: q is what the division gave.
Staffed(eaf, kloc, mode, effort_pm, duration_months, q, salary) ==
    IF q.exc # "none"
    THEN Raise(q.exc, StepsToStaffing,
               Raw(eaf, effort_pm, duration_months, Real(0), Real(0)))
    ELSE Costed(eaf, kloc, mode, effort_pm, duration_months, q.val,
                FloatOf(salary))

\* From the duration on.
Scheduled(eaf, kloc, mode, effort_pm, duration_months, salary) ==
    Staffed(eaf, kloc, mode, effort_pm, duration_months,
            TrueDiv(effort_pm, duration_months), salary)

\* From the effort on, with the parameters p of the mode.
Estimated(eaf, kloc, mode, p, effort_pm, salary) ==
    Scheduled(eaf, kloc, mode, effort_pm, Duration(p[3], effort_pm, p[4]), salary)

\* With the parameters p of the mode: float(kloc), then the formulas.
WithParams(eaf, mode, p, k, salary) ==
    IF k.exc # "none"
    THEN Raise(k.exc, <<"eaf", "mode", "effort">>,
               Raw(eaf, Real(0), Real(0), Real(0), Real(0)))
    ELSE Estimated(eaf, k.val, mode, p, Effort(p[1], k.val, p[2], eaf), salary)

\* Lookup falling back to the organic parameters for an unknown mode.
LookupDefault(eaf, mode, k, salary) ==
    WithParams(eaf, mode,
               COCOMO_PARAMS[IF mode \in DOMAIN COCOMO_PARAMS THEN mode
                             ELSE "organic"],
               k, salary)

\* COCOMO_PARAMS[mode]: a KeyError returns the invalid-mode error.
Lookup(eaf, mode, k, salary) ==
    IF mode \notin DOMAIN COCOMO_PARAMS
    THEN Return(None, Some(InvalidModeMsg), <<"eaf", "mode">>,
                Raw(eaf, Real(0), Real(0), Real(0), Real(0)))
    ELSE WithParams(eaf, mode, COCOMO_PARAMS[mode], k, salary)

\* Looped with the mode looked up before the drivers are converted.
LoopedModeFirst(loop, mode, k, salary) ==
    IF mode \notin DOMAIN COCOMO_PARAMS
    THEN Return(None, Some(InvalidModeMsg), <<"mode">>, NoRaw)
    ELSE IF loop.exc # "none" THEN Raise(loop.exc, <<"mode", "eaf">>, NoRaw)
    ELSE Lookup(loop.val, mode, k, salary)

\* After the loop over the drivers: an exception of float() ends the call.
Looped(loop, mode, k, salary) ==
    IF loop.exc # "none" THEN Raise(loop.exc, <<"eaf">>, NoRaw)
    ELSE Lookup(loop.val, mode, k, salary)

\* calculate_cocomo(kloc, mode, drivers, salary): what it returns or raises,
\* the steps it started, and the unrounded values it computed.
calculate_cocomo(kloc, mode, drivers, salary) ==
    Looped(EafLoop(DriverValues(drivers, 1), Scale), mode, FloatOf(kloc), salary)

-----------------------------------------------------------------------------
(* The request handler.                                                    *)

MagnitudeMsg == "KLOC and Salary must be positive numbers."

NumericMsg == "Please ensure all numerical fields are filled correctly."

\* f"A server error occurred: {e}".
ServerErrorMsg(e) == "A server error occurred: " \o e

\* str(e) of the exceptions the arithmetic raises.
ExcText(exc) ==
    IF exc = "ZeroDivisionError" THEN "float division by zero" ELSE exc

\* What calculate_cocomo is called with; NoArgs when it is not called.
NoArgs == [kloc |-> Missing, mode |-> NoMode, drivers |-> << >>,
           salary |-> Missing]

\* The form of a request that posts nothing.
EmptyForm == [kloc |-> Missing, salary |-> Missing, mode |-> NoMode,
              drivers |-> [key \in KeySet |-> Missing]]

\* The except clauses of index: the message an exception ends in.
Handled(exc) ==
    IF exc \in {"ValueError", "TypeError"} THEN NumericMsg
    ELSE ServerErrorMsg(ExcText(exc))

\* render_template_string: the chart divides effort_pm and duration_months
\* by their sum whenever there are results; an exception here is not caught.
Render(res) ==
    IF res # None /\ res[1].effort_pm + res[1].duration_months = 0
    THEN "ZeroDivisionError"
    ELSE "none"

\* The outcome of the handler when the engine was not called.
NotCalled(res, err) ==
    [results |-> res, error |-> err, raised |-> Render(res), args |-> NoArgs,
     steps |-> << >>, raw |-> NoRaw]

\* The arguments index passes to calculate_cocomo.
ArgsOf(kloc, salary, f) ==
    [kloc |-> Num(kloc), mode |-> f.mode,
     drivers |-> [key \in KeySet |-> f.drivers[key]], salary |-> Num(salary)]

\* The outcome of the handler when the engine gave out for the arguments a.
Called(a, out) ==
    [results |-> IF out.exc = "none" THEN out.results ELSE None,
     error |-> IF out.exc = "none" THEN out.error ELSE Some(Handled(out.exc)),
     raised |-> Render(IF out.exc = "none" THEN out.results ELSE None),
     args |-> a, steps |-> out.steps, raw |-> out.raw]

\* Checked testing the size alone.
CheckedKlocOnly(a) ==
    IF a.kloc.val <= 0
    THEN NotCalled(None, Some(MagnitudeMsg))
    ELSE Called(a, calculate_cocomo(a.kloc, a.mode, a.drivers, a.salary))

\* The try block once kloc and salary are floats.
Checked(a) ==
    IF a.kloc.val <= 0 \/ a.salary.val <= 0
    THEN NotCalled(None, Some(MagnitudeMsg))
    ELSE Called(a, calculate_cocomo(a.kloc, a.mode, a.drivers, a.salary))

\* The try block from float(request.form.get('kloc')) on.
Parsed(kloc, salary, f) ==
    IF kloc.exc # "none" THEN NotCalled(None, Some(Handled(kloc.exc)))
    ELSE IF salary.exc # "none" THEN NotCalled(None, Some(Handled(salary.exc)))
    ELSE Checked(ArgsOf(kloc.val, salary.val, f))

\* index() for a request of method m with form f.
index(m, f) ==
    IF m # "POST" THEN NotCalled(None, None)
    ELSE Parsed(FloatOf(f.kloc), FloatOf(f.salary), f)

-----------------------------------------------------------------------------
(* The inputs.                                                             *)

\* How many drivers of one request are given other than the nominal rating.
MaxOffNominal == 1

\* The smallest project size tried, 0.001 KLOC.
SmallKloc == Scale \div 1000

\* A multiplier below every catalog level, 0.0004.
TinyMult == Scale \div 2500

\* Values no catalog level has: None, a word, 0, -1.0, 2.0 and 0.0004.
Extras == {Missing, Text, Num(0), Num(-Scale), Num(2 * Scale), Num(TinyMult)}

Nominal(key) == Num(COST_DRIVERS_DATA[key].default)

\* What a form may hold for a driver: its catalog levels and the extras.
Choices(key) == {Num(v) : v \in LevelValues(key)} \cup Extras

\* The lowest multiplier the catalog has for a driver.
Lowest(key) == CHOOSE v \in LevelValues(key) : \A w \in LevelValues(key) : v <= w

\* What a direct call passes for a driver.
CallChoices(key) == {Nominal(key), Num(Lowest(key)), Text, Num(0)}

\* The driver values with at most MaxOffNominal keys off nominal, taken from Ch.
AtMostOff(Ch(_)) ==
    UNION {
      UNION {
        { [key \in KeySet |-> IF key \in K THEN g[key] ELSE Nominal(key)] :
            g \in { h \in [K -> UNION {Ch(k) : k \in K}] :
                      \A k \in K : h[k] \in Ch(k) \ {Nominal(k)} } }
        : K \in { J \in SUBSET KeySet : Cardinality(J) = n } }
      : n \in 0..MaxOffNominal }

\* The driver fields of a form.
FormDrivers == AtMostOff(Choices)

\* The dictionaries of a direct call: any set of keys omitted.
CallDrivers ==
    { [key \in KeySet \ O |-> d[key]] :
        O \in SUBSET KeySet, d \in AtMostOff(CallChoices) }

Modes == {"organic", "semidetached", "embedded", "waterfall", NoMode}

\* Inputs whose effort the fixed-point arithmetic can represent.
InRange(kloc, drivers) ==
    Cardinality({key \in DOMAIN drivers : drivers[key] = Num(TinyMult)})
        <= (IF kloc = Num(SmallKloc) THEN 0 ELSE 1)

Forms ==
    { f \in [kloc : {Text, Num(-Scale), Num(0), Num(SmallKloc), Num(10 * Scale)},
             salary : {Missing, Num(0), Num(Scale)},
             mode : Modes,
             drivers : FormDrivers] : InRange(f.kloc, f.drivers) }

CallArgs ==
    [kloc : {Num(-Scale), Num(0), Num(SmallKloc), Num(10 * Scale)},
     mode : {"organic", "embedded", "waterfall", NoMode},
     drivers : CallDrivers,
     salary : {Num(0), Num(Scale)}]

-----------------------------------------------------------------------------
(* The state machine: a request arrives, index handles it whole, the       *)
(* response is sent; or calculate_cocomo is called directly.               *)

Init ==
    /\ pc = "idle"
    /\ method = "none"
    /\ form = EmptyForm
    /\ args = NoArgs
    /\ results = None
    /\ error = None
    /\ raised = "none"
    /\ steps = << >>
    /\ raw = NoRaw

\* A GET request arrives.
Get ==
    /\ pc = "idle"
    /\ pc' = "received"
    /\ method' = "GET"
    /\ UNCHANGED <<form, args, results, error, raised, steps, raw>>

\* A POST request arrives, with any form.
Post ==
    /\ pc = "idle"
    /\ pc' = "received"
    /\ method' = "POST"
    /\ \E f \in Forms : form' = f
    /\ UNCHANGED <<args, results, error, raised, steps, raw>>

\* index handles the request.
Index ==
    /\ pc = "received"
    /\ \E out \in {index(method, form)} :
           /\ results' = out.results
           /\ error' = out.error
           /\ raised' = out.raised
           /\ args' = out.args
           /\ steps' = out.steps
           /\ raw' = out.raw
    /\ pc' = "done"
    /\ UNCHANGED <<method, form>>

\* calculate_cocomo is called directly, with any arguments.
Call ==
    /\ pc = "idle"
    /\ pc' = "called"
    /\ method' = "CALL"
    /\ \E a \in CallArgs : args' = a
    /\ UNCHANGED <<form, results, error, raised, steps, raw>>

\* The direct call runs.
Calculate ==
    /\ pc = "called"
    /\ \E out \in {calculate_cocomo(args.kloc, args.mode, args.drivers, args.salary)} :
           /\ results' = out.results
           /\ error' = out.error
           /\ raised' = out.exc
           /\ steps' = out.steps
           /\ raw' = out.raw
    /\ pc' = "done"
    /\ UNCHANGED <<method, form, args>>

\* The response is sent (or the call has returned); nothing is kept.
Finish ==
    /\ pc = "done"
    /\ pc' = "idle"
    /\ method' = "none"
    /\ form' = EmptyForm
    /\ args' = NoArgs
    /\ results' = None
    /\ error' = None
    /\ raised' = "none"
    /\ steps' = << >>
    /\ raw' = NoRaw

Next ==
    \/ Get
    \/ Post
    \/ Index
    \/ Call
    \/ Calculate
    \/ Finish

Spec == Init /\ [][Next]_vars

-----------------------------------------------------------------------------
(* What the claims speak of.                                               *)

Done == pc = "done"

IsGet == Done /\ method = "GET"

IsPost == Done /\ method = "POST"

IsCall == Done /\ method = "CALL"

\* calculate_cocomo ran, called directly or by index.
EngineRan == Done /\ steps # << >>

HasRecord == Done /\ results # None

ValidMode(mode) == mode \in DOMAIN COCOMO_PARAMS

Started(step) == \E i \in DOMAIN steps : steps[i] = step

\* The keys whose value float() rejects.
NotFloat(drivers) == {key \in DOMAIN drivers : drivers[key].kind # "num"}

\* The keys given a number that is no level of the driver.
OffCatalog(drivers) ==
    {key \in DOMAIN drivers :
        drivers[key].kind = "num" /\ drivers[key].val \notin LevelValues(key)}

\* The keys given a word or a number that is no level of the driver.
BadDrivers(drivers) ==
    {key \in DOMAIN drivers : drivers[key].kind = "text"} \cup OffCatalog(drivers)

\* The multiplier in effect for a key: the one given, or the nominal one.
Effective(drivers, key) ==
    IF key \in DOMAIN drivers THEN drivers[key].val
    ELSE COST_DRIVERS_DATA[key].default

\* The product of the five multipliers in effect.
ProductOfFive(drivers) ==
    FMul(FMul(FMul(FMul(Effective(drivers, "RELY"), Effective(drivers, "DATA")),
                   Effective(drivers, "CPLX")),
              Effective(drivers, "TOOL")),
         Effective(drivers, "VIRT"))

\* A dictionary or form with the keys left out given the nominal multiplier.
FillDrivers(drivers) ==
    [key \in KeySet |->
        IF key \in DOMAIN drivers /\ drivers[key] # Missing THEN drivers[key]
        ELSE Nominal(key)]

\* What a caller sees of a direct call.
Seen(out) == <<out.results, out.error, out.exc>>

\* What the page shows after a request.
Shown(out) == <<out.results, out.error, out.raised>>

\* The size and the cost of the form are numbers.
Parses(f) == f.kloc.kind = "num" /\ f.salary.kind = "num"

NonPositive(kloc, salary) == kloc.val <= 0 \/ salary.val <= 0

-----------------------------------------------------------------------------
(* The claims.                                                             *)

InvalidDriverValue(key) == "InvalidDriverValue: " \o key

\* C3: for a catalog mode, a size > 0 and a cost > 0, a driver value that is
\* a number but no level of its driver makes the estimate fail with
\* InvalidDriverValue naming the key, without a record.
C3_DriverValidated ==
    EngineRan /\ ValidMode(args.mode)
        /\ ~NonPositive(args.kloc, args.salary)
        /\ NotFloat(args.drivers) = {} /\ OffCatalog(args.drivers) # {}
        => /\ results = None
           /\ \E key \in OffCatalog(args.drivers) :
                  error = Some(InvalidDriverValue(key))

\* C4, as stated: leaving driver keys out gives the same outcome as giving
\* them the nominal multiplier, in a direct call and in a POST alike.
C4_OmittedEverywhere ==
    /\ IsCall =>
         <<results, error, raised>>
            = Seen(calculate_cocomo(args.kloc, args.mode,
                                    FillDrivers(args.drivers), args.salary))
    /\ IsPost =>
         <<results, error, raised>>
            = Shown(index("POST", [form EXCEPT !.drivers = FillDrivers(@)]))

\* C4, amended: in a direct call of calculate_cocomo, leaving driver keys
\* out gives the same outcome as giving them the nominal multiplier; a POST
\* with a positive size and cost whose form lacks a driver field ends in the
\* numeric-fields error without a record.
C4_OmittedInCall ==
    /\ IsCall =>
         <<results, error, raised>>
            = Seen(calculate_cocomo(args.kloc, args.mode,
                                    FillDrivers(args.drivers), args.salary))
    /\ IsPost /\ Parses(form) /\ ~NonPositive(form.kloc, form.salary)
         /\ (\E key \in KeySet : form.drivers[key] = Missing)
         => results = None /\ error = Some(NumericMsg)

\* C4 happens: a direct call with keys left out and another key off nominal
\* returns a record.
C4_Witness ==
    /\ IsCall /\ DOMAIN args.drivers # KeySet /\ results # None
    /\ \E key \in DOMAIN args.drivers : args.drivers[key] # Nominal(key)

C6_AlwaysAnError ==
    /\ IsPost =>
         /\ raised = "none"
         /\ (results = None) # (error = None)
         /\ ( \/ ~Parses(form)
              \/ NonPositive(form.kloc, form.salary)
              \/ ~ValidMode(form.mode)
              \/ BadDrivers(form.drivers) # {} )
              => results = None /\ error # None
    /\ IsGet => results = None /\ error = None

C10_Degenerate ==
    Done /\ Started("duration") /\ ~raw.duration.cx /\ raw.duration.v <= 0
        => /\ ~Started("staffing")
           /\ raised # "ZeroDivisionError"
           /\ error # Some(ServerErrorMsg(ExcText("ZeroDivisionError")))

====
